---- MODULE Spec2Model ----
(***************************************************************************)
(* A model of the aud synthesiser (src/src/main.rs, src/hack/src/lib.rs):  *)
(* the SampleTime clock, the Source graph (f32, Wrapped, Sine, ADSR, Add,  *)
(* Mul), the render callback and the controlling thread of main.           *)
(*                                                                         *)
(* f32 values are modelled as fixed-point integers: the integer v stands   *)
(* for the number v / FxScale.  Sums are exact, products and quotients are *)
(* rounded toward zero.  u32 values keep their 32-bit width: a product is  *)
(* computed limb by limb, with its wrapped value and its overflow flag.    *)
(***************************************************************************)
EXTENDS Integers, Sequences, FiniteSets, TLC

VARIABLES
    source,     \* the Source graph under update (main: `source`)
    prev,       \* history: the graph before the last update
    elapsed,    \* history: the SampleTime passed to the last update
    cmp,        \* a pair of SampleTime values and the results of ==, partial_cmp
    config,     \* hack::Config: channels, sample_rate
    stream,     \* the cpal stream: "built", "playing", "dropped"
    cb,         \* the render callback invocation in progress
    chan,       \* the mpsc channel: descriptors sent and not yet received
    rx,         \* the receiving end: "alive" or "dropped"
    ctl,        \* the controlling thread (main after stream.play())
    clock,      \* the backend's clock (callback-issue instants)
    log         \* history: descriptors sent, received, callbacks made

vars == <<source, prev, elapsed, cmp, config, stream, cb, chan, rx, ctl, clock, log>>

-----------------------------------------------------------------------------
(* Bounds of the model *)

\* fixed-point resolution: the f32 value 1.0 is the integer FxScale
FxScale == 8
\* largest small sample count and rate drawn for a SampleTime
MaxCount == 2
MaxRate == 2
\* a node under test receives at most MaxUpdates updates
MaxUpdates == 6
\* the backend invokes the callback at most MaxCallbacks times, each with a
\* buffer of at most MaxFrames frames
MaxCallbacks == 3
MaxFrames == 2
MaxRunUpdates == 24

-----------------------------------------------------------------------------
(* f32 arithmetic in fixed point *)

\* the literal num/den as an f32
Fx(num, den) == (num * FxScale) \div den

One == FxScale

\* f32 multiplication, rounded toward zero
FMul(a, b) ==
    IF a * b >= 0 THEN (a * b) \div FxScale ELSE -((-(a * b)) \div FxScale)

\* f32::fract: self - self.trunc(), which keeps the sign of self
Fract(x) == IF x >= 0 THEN x % FxScale ELSE -((-x) % FxScale)

\* f32::sin of phase * TAU, phase in turns: a parabola through the zeros and
\* the extrema of the sine, odd and periodic like the sine
SinTurn(p) ==
    LET neg == p < 0
        d == (2 * (IF neg THEN -p ELSE p)) % (2 * FxScale)
        s == IF d <= FxScale
             THEN (4 * d * (FxScale - d)) \div FxScale
             ELSE -((4 * (d - FxScale) * (2 * FxScale - d)) \div FxScale)
    IN IF neg THEN -s ELSE s

-----------------------------------------------------------------------------
(* u32 arithmetic *)

Limb == 2^16

\* the product of two 16-bit values as <<high 16 bits, low 16 bits>>
Mul16(x, y) ==
    LET y0 == y % 256
        y1 == y \div 256
        u == x * y1
        acc == x * y0 + (u % 256) * 256
    IN <<(u \div 256) + (acc \div Limb), acc % Limb>>

\* a * b in u32: the wrapped product as <<high 16 bits, low 16 bits>> and
\* whether the exact product exceeds 32 bits
MulU32(a, b) ==
    LET a0 == a % Limb
        a1 == a \div Limb
        b0 == b % Limb
        b1 == b \div Limb
        p00 == Mul16(a0, b0)
        p01 == Mul16(a0, b1)
        p10 == Mul16(a1, b0)
        p11 == Mul16(a1, b1)
        s1 == p00[1] + p01[2] + p10[2]
    IN [wrapped |-> <<s1 % Limb, p00[2]>>,
        overflow |-> (p01[1] + p10[1] + (s1 \div Limb) > 0) \/ p11 # <<0, 0>>]

\* u32::partial_cmp on two wrapped values
CmpU32(x, y) ==
    IF x[1] < y[1] THEN "Less"
    ELSE IF x[1] > y[1] THEN "Greater"
    ELSE IF x[2] < y[2] THEN "Less"
    ELSE IF x[2] > y[2] THEN "Greater"
    ELSE "Equal"

-----------------------------------------------------------------------------
(* SampleTime *)

SampleTime(count, rate) == [count |-> count, rate |-> rate]

\* count as f32 / rate as f32
as_secs(self) == (self.count * FxScale) \div self.rate

\* the outcome of `x * y <op> z * w` on u32 under the build's overflow checks:
\* a debug build panics on overflow, a release build wraps
SampleTime_cross(self, other, checks) ==
    LET l == MulU32(self.count, other.rate)
        r == MulU32(other.count, self.rate)
    IN IF checks /\ (l.overflow \/ r.overflow)
       THEN "panic"
       ELSE CmpU32(l.wrapped, r.wrapped)

SampleTime_eq_secs(self, other, checks) ==
    as_secs(self) = as_secs(other)

SampleTime_eq(self, other, checks) ==
    LET c == SampleTime_cross(self, other, checks)
    IN IF c = "panic" THEN "panic" ELSE c = "Equal"

SampleTime_partial_cmp(self, other, checks) ==
    SampleTime_cross(self, other, checks)

-----------------------------------------------------------------------------
(* The Source graph.  A node is a record tagged by `kind`; `updates` counts  *)
(* the update calls a node has received (history, not program state).      *)

RECURSIVE Update(_, _)
RECURSIVE Sample(_)

F32(value) == [kind |-> "f32", value |-> value]

\* Source::update, the default body: nothing
Default_update(self, dt) == self

F32_sample(self) == self.value

wrap(inner) == [kind |-> "Wrapped", inner |-> inner, updates |-> 0]

Wrapped_update(self, dt) ==
    [self EXCEPT !.inner = Update(self.inner, dt), !.updates = @ + 1]

Wrapped_sample(self) == Sample(self.inner)

Add(left, right) == [kind |-> "Add", left |-> left, right |-> right, updates |-> 0]

Add_update(self, dt) ==
    [self EXCEPT !.left = Update(self.left, dt),
                 !.right = Update(self.right, dt),
                 !.updates = @ + 1]

Add_sample(self) == Sample(self.left) + Sample(self.right)

Mul(left, right) == [kind |-> "Mul", left |-> left, right |-> right, updates |-> 0]

Mul_update_lazy(self, dt) ==
    [self EXCEPT !.left = Update(self.left, dt),
                 !.right = IF Sample(self.right) = 0
                           THEN self.right ELSE Update(self.right, dt),
                 !.updates = @ + 1]

Mul_update(self, dt) ==
    [self EXCEPT !.left = Update(self.left, dt),
                 !.right = Update(self.right, dt),
                 !.updates = @ + 1]

Mul_sample(self) == FMul(Sample(self.left), Sample(self.right))

sine(hz) == [kind |-> "Sine", hz |-> hz, phase |-> 0, updates |-> 0]

vibrato(self, hz, cents) ==
    LET modulation == Mul(sine(hz), F32((cents * FxScale) \div 14))
    IN [kind |-> "Sine", hz |-> Add(self.hz, modulation),
        phase |-> self.phase, updates |-> 0]

Sine_update_unwrapped(self, dt) ==
    LET hz == Update(self.hz, dt)
    IN [self EXCEPT !.hz = hz,
                    !.phase = self.phase + FMul(as_secs(dt), Sample(hz)),
                    !.updates = @ + 1]

Sine_update_stale(self, dt) ==
    LET hz == Update(self.hz, dt)
    IN [self EXCEPT !.hz = hz,
                    !.phase = Fract(self.phase + FMul(as_secs(dt), Sample(self.hz))),
                    !.updates = @ + 1]

\* self.hz.update(elapsed) is made once, and its result is used for both the
\* new hz and the phase
Sine_update(self, dt) ==
    CHOOSE next \in
        {[self EXCEPT !.hz = hz,
                      !.phase = Fract(self.phase + FMul(as_secs(dt), Sample(hz))),
                      !.updates = @ + 1] : hz \in {Update(self.hz, dt)}} : TRUE

Sine_sample(self) == SinTurn(self.phase)

ADSRState == <<"Before", "Attack", "Decay", "Sustain", "Release", "After">>

\* the position of an ADSRState in the enum
Rank(s) == CHOOSE i \in 1..Len(ADSRState) : ADSRState[i] = s

adsr(active, attack_rate, decay_rate, sustain_level, release_rate) ==
    [kind |-> "ADSR",
     active |-> active,
     attack_rate |-> attack_rate,
     decay_rate |-> decay_rate,
     sustain_level |-> sustain_level,
     release_rate |-> release_rate,
     time |-> 0,
     state |-> "Before",
     level |-> 0,
     updates |-> 0]

\* Range<f32>::contains
Range(start, end) == [start |-> start, end |-> end]
contains(range, x) == range.start <= x /\ x < range.end

\* the arms of the match in ADSR::update; s is self after `self.time += elapsed`
ADSR_Before_started(s, dt) ==
    IF s.active.start <= s.time
    THEN [s EXCEPT !.state = "Attack"]
    ELSE s

ADSR_Before(s, dt) ==
    IF contains(s.active, s.time)
    THEN [s EXCEPT !.state = "Attack"]
    ELSE s

ADSR_Attack_window(s, dt) ==
    LET level == s.level + FMul(s.attack_rate, dt)
    IN IF ~contains(s.active, s.time)
       THEN [s EXCEPT !.level = level, !.state = "Release"]
       ELSE IF level > One
            THEN [s EXCEPT !.level = One, !.state = "Decay"]
            ELSE [s EXCEPT !.level = level]

ADSR_Attack_unclamped(s, dt) ==
    LET level == s.level + FMul(s.attack_rate, dt)
    IN IF level > One
       THEN [s EXCEPT !.level = level, !.state = "Decay"]
       ELSE [s EXCEPT !.level = level]

ADSR_Attack_inclusive(s, dt) ==
    LET level == s.level + FMul(s.attack_rate, dt)
    IN IF level >= One
       THEN [s EXCEPT !.level = One, !.state = "Decay"]
       ELSE [s EXCEPT !.level = level]

ADSR_Attack(s, dt) ==
    LET level == s.level + FMul(s.attack_rate, dt)
    IN IF level > One
       THEN [s EXCEPT !.level = One, !.state = "Decay"]
       ELSE [s EXCEPT !.level = level]

ADSR_Decay_unclamped(s, dt) ==
    LET level == s.level - FMul(s.decay_rate, dt)
    IN IF level < s.sustain_level
       THEN [s EXCEPT !.level = level, !.state = "Sustain"]
       ELSE [s EXCEPT !.level = level]

ADSR_Decay_gated(s, dt) ==
    LET level == s.level - FMul(s.decay_rate, dt)
    IN IF ~contains(s.active, s.time)
       THEN [s EXCEPT !.level = level, !.state = "Release"]
       ELSE IF level < s.sustain_level
            THEN [s EXCEPT !.level = s.sustain_level, !.state = "Sustain"]
            ELSE [s EXCEPT !.level = level]

ADSR_Decay(s, dt) ==
    LET level == s.level - FMul(s.decay_rate, dt)
    IN IF level < s.sustain_level
       THEN [s EXCEPT !.level = s.sustain_level, !.state = "Sustain"]
       ELSE [s EXCEPT !.level = level]

ADSR_Sustain(s, dt) ==
    IF ~contains(s.active, s.time)
    THEN [s EXCEPT !.state = "Release"]
    ELSE s

ADSR_Release_inclusive(s, dt) ==
    LET level == s.level - FMul(s.release_rate, dt)
    IN IF level <= 0
       THEN [s EXCEPT !.level = 0, !.state = "After"]
       ELSE [s EXCEPT !.level = level]

ADSR_Release(s, dt) ==
    LET level == s.level - FMul(s.release_rate, dt)
    IN IF level < 0
       THEN [s EXCEPT !.level = 0, !.state = "After"]
       ELSE [s EXCEPT !.level = level]

ADSR_After_falling(s, dt) == [s EXCEPT !.level = @ - FMul(s.release_rate, dt)]

ADSR_After(s, dt) == s

ADSR_update_before_only(self, st) ==
    LET dt == as_secs(st)
        s == [self EXCEPT !.time = IF self.state = "Before" THEN @ + dt ELSE @,
                          !.updates = @ + 1]
    IN CASE s.state = "Before" -> ADSR_Before(s, dt)
         [] s.state = "Attack" -> ADSR_Attack(s, dt)
         [] s.state = "Decay" -> ADSR_Decay(s, dt)
         [] s.state = "Sustain" -> ADSR_Sustain(s, dt)
         [] s.state = "Release" -> ADSR_Release(s, dt)
         [] s.state = "After" -> ADSR_After(s, dt)

ADSR_update(self, st) ==
    LET dt == as_secs(st)
        s == [self EXCEPT !.time = @ + dt, !.updates = @ + 1]
    IN CASE s.state = "Before" -> ADSR_Before(s, dt)
         [] s.state = "Attack" -> ADSR_Attack(s, dt)
         [] s.state = "Decay" -> ADSR_Decay(s, dt)
         [] s.state = "Sustain" -> ADSR_Sustain(s, dt)
         [] s.state = "Release" -> ADSR_Release(s, dt)
         [] s.state = "After" -> ADSR_After(s, dt)

ADSR_sample(self) == self.level

\* the dispatch of Source::update and Source::sample on the node's type
Update(node, dt) ==
    CASE node.kind = "f32" -> Default_update(node, dt)
      [] node.kind = "Wrapped" -> Wrapped_update(node, dt)
      [] node.kind = "Add" -> Add_update(node, dt)
      [] node.kind = "Mul" -> Mul_update(node, dt)
      [] node.kind = "Sine" -> Sine_update(node, dt)
      [] node.kind = "ADSR" -> ADSR_update(node, dt)

Sample(node) ==
    CASE node.kind = "f32" -> F32_sample(node)
      [] node.kind = "Wrapped" -> Wrapped_sample(node)
      [] node.kind = "Add" -> Add_sample(node)
      [] node.kind = "Mul" -> Mul_sample(node)
      [] node.kind = "Sine" -> Sine_sample(node)
      [] node.kind = "ADSR" -> ADSR_sample(node)

-----------------------------------------------------------------------------
(* Notes and the graph built by main *)

\* Key::note: semitones from A4
Key_note(key, octave) ==
    (octave - 4) * 12 +
        CASE key = "C" -> -9
          [] key = "CSharp" -> -8
          [] key = "D" -> -7
          [] key = "DSharp" -> -6
          [] key = "E" -> -5
          [] key = "F" -> -4
          [] key = "FSharp" -> -3
          [] key = "G" -> -2
          [] key = "GSharp" -> -1
          [] key = "A" -> 0
          [] key = "ASharp" -> 1
          [] key = "B" -> 2

\* Note::hz: 440.0 * 2^(n/12), tabulated to 1/100 Hz for the notes main plays
Note_hz(n) ==
    CASE n = 0 -> Fx(44000, 100)
      [] n = -9 -> Fx(26163, 100)
      [] n = -4 -> Fx(34923, 100)

Note_sine(n) == sine(F32(Note_hz(n)))

\* impl Mul<R> for Wrapped<L>, impl Add<R> for Wrapped<L>
Wrapped_mul(self, rhs) == wrap(Mul(self.inner, rhs))
Wrapped_add(self, rhs) == wrap(Add(self.inner, rhs))

\* one voice of main: note.sine().vibrato(hz, cents).wrap() * adsr(...)
Voice(key, vib_hz, cents, from, to) ==
    Wrapped_mul(wrap(vibrato(Note_sine(Key_note(key, 4)), F32(Fx(vib_hz, 1)), cents)),
                adsr(Range(from, to), Fx(8, 1), Fx(15, 1), Fx(6, 10), Fx(1, 1)))

\* main: let mut source = ...
MainSource ==
    Wrapped_add(
        Wrapped_add(Voice("A", 2, 6, Fx(0, 1), Fx(31, 10)),
                    Voice("C", 50, 8, Fx(1, 1), Fx(32, 10))),
        Voice("F", 50, 14, Fx(2, 1), Fx(34, 10)))

\* every node of a graph
RECURSIVE Nodes(_)
Nodes(node) ==
    {node} \cup
        CASE node.kind = "f32" -> {}
          [] node.kind = "ADSR" -> {}
          [] node.kind = "Wrapped" -> Nodes(node.inner)
          [] node.kind = "Sine" -> Nodes(node.hz)
          [] node.kind \in {"Add", "Mul"} -> Nodes(node.left) \cup Nodes(node.right)

-----------------------------------------------------------------------------
(* The mpsc channel, the render callback and the stop decision of main *)

\* std::time::Duration::from_secs(5)
PlayDuration == 5

\* seconds the backend's clock advances between two callbacks, and the output
\* latencies it reports (playback = callback + latency)
ClockSteps == {3}
Latencies == {0, 2, 4}
\* the device sample rates drawn for config.sample_rate(), low enough for one
\* sample period to be a non-zero fixed-point time
RenderRates == {1, 2}
\* the channel counts drawn for config.channels()
ChannelCounts == {1, 2}

\* Sender::send and Receiver::recv on the channel's queue
Channel_send(queue, msg) == Append(queue, msg)

Channel_recv_newest(queue) ==
    [msg |-> queue[Len(queue)], rest |-> SubSeq(queue, 1, Len(queue) - 1)]

Channel_recv(queue) == [msg |-> Head(queue), rest |-> Tail(queue)]

\* StreamInstant::duration_since: None when `earlier` is later than self
duration_since(self, earlier) ==
    IF self >= earlier THEN <<self - earlier>> ELSE <<>>

\* the body of `for channels in buf.chunks_mut(channels)` for the frame-th
\* chunk: update the root, sample it, fill the chunk; `calls` lists the calls
\* made on the root
RenderFrame_per_slot(src, buf, frame, channels, rate) ==
    LET first == (frame - 1) * channels + 1
        s1 == Update(src, SampleTime(1, rate))
        s2 == IF channels > 1 THEN Update(s1, SampleTime(1, rate)) ELSE s1
    IN [source |-> s2,
        buf |-> [i \in DOMAIN buf |->
                    IF i = first THEN <<Sample(s1)>>
                    ELSE IF first < i /\ i < first + channels THEN <<Sample(s2)>>
                    ELSE buf[i]],
        calls |-> IF channels > 1
                  THEN <<"update", "sample", "update", "sample">>
                  ELSE <<"update", "sample">>]

RenderFrame(src, buf, frame, channels, rate) ==
    LET first == (frame - 1) * channels + 1
    IN CHOOSE r \in
           {[source |-> s1,
             buf |-> [i \in DOMAIN buf |->
                         IF first <= i /\ i < first + channels
                         THEN <<value>> ELSE buf[i]],
             calls |-> <<"update", "sample">>] :
                <<s1, value>> \in
                    {<<s, Sample(s)>> : s \in {Update(src, SampleTime(1, rate))}}} :
           TRUE

\* the decision main takes on a descriptor received in its loop: whether to
\* stop, and the delay to sleep before stopping
StopDecision_inclusive(start_time, playback_time) ==
    LET duration == duration_since(playback_time.playback, start_time)
    IN IF duration # <<>> /\ duration[1] >= PlayDuration
       THEN [stop |-> TRUE,
             delay |-> duration_since(playback_time.playback, playback_time.callback)]
       ELSE [stop |-> FALSE, delay |-> <<>>]

StopDecision_on_callback(start_time, playback_time) ==
    LET duration == duration_since(playback_time.callback, start_time)
    IN IF duration # <<>> /\ duration[1] > PlayDuration
       THEN [stop |-> TRUE,
             delay |-> duration_since(playback_time.playback, playback_time.callback)]
       ELSE [stop |-> FALSE, delay |-> <<>>]

StopDecision(start_time, playback_time) ==
    LET duration == duration_since(playback_time.playback, start_time)
    IN IF duration # <<>> /\ duration[1] > PlayDuration
       THEN [stop |-> TRUE,
             delay |-> duration_since(playback_time.playback, playback_time.callback)]
       ELSE [stop |-> FALSE, delay |-> <<>>]

-----------------------------------------------------------------------------
(* State shared by the specifications: the parts a specification does not   *)
(* exercise stay at these values.                                          *)

NoNode == F32(0)
NoTime == SampleTime(0, 1)
NoCmp == [a |-> NoTime, b |-> NoTime, checks |-> FALSE, done |-> FALSE,
          eq |-> FALSE, ord |-> "Equal"]
NoConfig == [channels |-> 1, sample_rate |-> 1]
NoInfo == [callback |-> 0, playback |-> 0]
NoCallback == [pc |-> "idle", buf |-> <<>>, info |-> NoInfo, frames |-> 0,
               frame |-> 0, base |-> 0, trace |-> <<>>]
NoControl == [pc |-> "none", start_time |-> 0, cur |-> NoInfo, delay |-> 0,
              slept |-> FALSE]
NoLog == [sent |-> <<>>, received |-> <<>>, callbacks |-> 0]

GraphIdle == source = NoNode /\ prev = NoNode /\ elapsed = NoTime
CmpIdle == cmp = NoCmp
ProgramIdle ==
    /\ config = NoConfig
    /\ stream = "built"
    /\ cb = NoCallback
    /\ chan = <<>>
    /\ rx = "alive"
    /\ ctl = NoControl
    /\ clock = 0
    /\ log = NoLog

programVars == <<config, stream, cb, chan, rx, ctl, clock, log>>

\* the SampleTime values an update under test is given
Elapsed == {SampleTime(c, r) : c \in 0..MaxCount, r \in 1..MaxRate}

-----------------------------------------------------------------------------
(* SpecADSR: one envelope built by adsr, updated with any elapsed time *)

\* the windows, rates and sustain levels drawn for the envelope under test
Windows == {Range(Fx(0, 1), Fx(2, 1)), Range(Fx(1, 1), Fx(12, 10)),
            Range(Fx(1, 1), Fx(1, 1))}
AttackRates == {0, Fx(1, 1), Fx(8, 1)}
DecayRates == {0, Fx(8, 1)}
ReleaseRates == {Fx(1, 1), Fx(8, 1)}
Levels == {0, Fx(6, 10), One}

InitADSR ==
    /\ source \in {adsr(w, a, d, s, r) :
                       w \in Windows, a \in AttackRates, d \in DecayRates,
                       s \in Levels, r \in ReleaseRates}
    /\ prev = NoNode
    /\ elapsed = NoTime
    /\ CmpIdle
    /\ ProgramIdle

\* source.update(st) on the node under test
UpdateNode(st) ==
    /\ source.updates < MaxUpdates
    /\ source' = Update(source, st)
    /\ prev' = source
    /\ elapsed' = st
    /\ UNCHANGED <<cmp, programVars>>

NextADSR == \E st \in Elapsed : UpdateNode(st)

SpecADSR == InitADSR /\ [][NextADSR]_vars

\* C1: every update leaves the envelope state unchanged or moves it to the
\* immediate successor in the order Before, Attack, Decay, Sustain, Release,
\* After; no update moves it to an earlier state or past the successor.
C1_ForwardOneStep ==
    [][Rank(source'.state) - Rank(source.state) \in {0, 1}]_vars

\* the envelope has gone through every state, one update at a time
C1_Witness ==
    /\ source.kind = "ADSR" /\ prev.kind = "ADSR"
    /\ prev.state = "Release" /\ source.state = "After"

\* C2: once the state is After, the level is 0.0 and every later update, for
\* any elapsed value, leaves the state After and the level 0.0.
C2_AfterIsTerminal ==
    [][source.state = "After" =>
          source.level = 0 /\ source'.state = "After" /\ source'.level = 0]_vars

\* an update with a positive elapsed time was made in state After
C2_Witness ==
    /\ source.kind = "ADSR" /\ prev.kind = "ADSR"
    /\ prev.state = "After" /\ source.state = "After"
    /\ as_secs(elapsed) > 0

\* C3: for an envelope built by adsr with sustain_level in [0,1] and
\* non-negative rates, sample() is within [0,1] after any sequence of updates
\* with non-negative elapsed time.
C3_LevelInUnitInterval ==
    (/\ source.kind = "ADSR"
     /\ 0 <= source.sustain_level /\ source.sustain_level <= One
     /\ source.attack_rate >= 0 /\ source.decay_rate >= 0
     /\ source.release_rate >= 0)
    => (0 <= Sample(source) /\ Sample(source) <= One)

\* an update in Attack overshot 1.0 and the level returned is the clamped 1.0
C3_Witness ==
    /\ source.kind = "ADSR" /\ prev.kind = "ADSR"
    /\ prev.state = "Attack"
    /\ prev.level + FMul(prev.attack_rate, as_secs(elapsed)) > One
    /\ Sample(source) = One

\* C10 as stated: in Attack an update adds attack_rate*dt to the level, and
\* when the sum is greater than or equal to 1.0 the level is set to 1.0 and the
\* state becomes Decay in that same update.
C10_AttackClampsAtOne ==
    [][source.state = "Attack" =>
          LET level == source.level + FMul(source.attack_rate, as_secs(elapsed'))
          IN IF level >= One
             THEN source'.level = One /\ source'.state = "Decay"
             ELSE source'.level = level /\ source'.state = "Attack"]_vars

\* C10 amended: in Attack an update adds attack_rate*dt to the level; when the
\* sum is strictly greater than 1.0 the level is set to 1.0 and the state
\* becomes Decay in that same update; when the sum is at most 1.0 (1.0
\* included) the level is the sum and the state stays Attack.
C10_AttackClampsAboveOne ==
    [][source.state = "Attack" =>
          LET level == source.level + FMul(source.attack_rate, as_secs(elapsed'))
          IN IF level > One
             THEN source'.level = One /\ source'.state = "Decay"
             ELSE source'.level = level /\ source'.state = "Attack"]_vars

\* an update in Attack landed exactly on 1.0 and the state stayed Attack
C10_Witness ==
    /\ source.kind = "ADSR" /\ prev.kind = "ADSR"
    /\ prev.state = "Attack" /\ prev.level < One
    /\ prev.level + FMul(prev.attack_rate, as_secs(elapsed)) = One
    /\ source.state = "Attack" /\ source.level = One

\* the last update was made on an envelope, in state `st`
Updated(st) ==
    source.kind = "ADSR" /\ prev.kind = "ADSR" /\ prev.state = st

\* C11 as stated: in Release an update subtracts release_rate*dt from the
\* level, and when the difference is less than or equal to 0.0 the level is
\* set to 0.0 and the state becomes After in that same update.
C11_ReleaseClampsAtZero ==
    Updated("Release") =>
        LET level == prev.level - FMul(prev.release_rate, as_secs(elapsed))
        IN IF level <= 0
           THEN source.level = 0 /\ source.state = "After"
           ELSE source.level = level /\ source.state = "Release"

\* C11 amended: in Release an update subtracts release_rate*dt from the
\* level; when the difference is strictly less than 0.0 the level is set to
\* 0.0 and the state becomes After in that same update; when it is 0.0 or
\* more (0.0 included) the level is the difference and the state stays
\* Release.
C11_ReleaseClampsBelowZero ==
    Updated("Release") =>
        LET level == prev.level - FMul(prev.release_rate, as_secs(elapsed))
        IN IF level < 0
           THEN source.level = 0 /\ source.state = "After"
           ELSE source.level = level /\ source.state = "Release"

\* an update in Release took a positive level exactly to 0.0 and the state
\* stayed Release
C11_Witness ==
    /\ Updated("Release")
    /\ prev.level > 0
    /\ prev.level - FMul(prev.release_rate, as_secs(elapsed)) = 0
    /\ source.state = "Release" /\ source.level = 0

\* C12: whenever the envelope is in Sustain its level equals sustain_level;
\* an update in Sustain never changes the level, and it moves the state to
\* Release exactly when the accumulated time, this update's elapsed time
\* included, is not inside [start,end); Release is entered no other way.
C12_SustainHoldsUntilWindowEnds ==
    /\ (source.kind = "ADSR" /\ source.state = "Sustain") =>
          source.level = source.sustain_level
    /\ Updated("Sustain") =>
          /\ source.level = prev.level
          /\ source.state =
                IF contains(prev.active, prev.time + as_secs(elapsed))
                THEN "Sustain" ELSE "Release"
    /\ (source.kind = "ADSR" /\ prev.kind = "ADSR"
          /\ source.state = "Release" /\ prev.state # "Release") =>
          /\ prev.state = "Sustain"
          /\ ~contains(source.active, source.time)

\* an update with a positive elapsed time was made in Sustain, inside the
\* window, and held the level at a sustain_level strictly between 0 and 1
C12_Witness ==
    /\ Updated("Sustain")
    /\ source.state = "Sustain"
    /\ as_secs(elapsed) > 0
    /\ 0 < source.level /\ source.level < One

\* C19: while the state is Before the level is 0.0; an update in Before moves
\* the state to Attack exactly when the accumulated time, this update's
\* elapsed time included, lies inside [start,end), and otherwise leaves the
\* envelope in Before with level 0.0, however far the time is past the window.
C19_BeforeUntilInsideWindow ==
    /\ (source.kind = "ADSR" /\ source.state = "Before") => source.level = 0
    /\ Updated("Before") =>
          /\ source.level = 0
          /\ source.state =
                IF contains(prev.active, prev.time + as_secs(elapsed))
                THEN "Attack" ELSE "Before"

\* one update stepped over a non-empty window and the envelope is still in
\* Before, past the end of the window
C19_Witness ==
    /\ Updated("Before")
    /\ source.active.start < source.active.end
    /\ prev.time < source.active.start
    /\ source.time >= source.active.end
    /\ source.state = "Before"

-----------------------------------------------------------------------------
(* SpecRun: one envelope with positive rates and a non-empty window, updated *)
(* again and again with the same positive elapsed time, as the render loop   *)
(* does with one frame's SampleTime.                                         *)

\* the windows and rates drawn for the run; every rate * dt is a non-zero
\* amount of level
RunWindows == {Range(Fx(0, 1), Fx(2, 1)), Range(Fx(1, 1), Fx(12, 10)),
               Range(Fx(1, 2), Fx(1, 1))}
RunRates == {Fx(1, 1), Fx(8, 1)}

InitRun ==
    /\ source \in {adsr(w, a, d, s, r) :
                       w \in RunWindows, a \in RunRates, d \in RunRates,
                       s \in Levels, r \in RunRates}
    /\ prev = NoNode
    /\ elapsed \in {st \in Elapsed : as_secs(st) > 0}
    /\ CmpIdle
    /\ ProgramIdle

\* source.update(elapsed) with the run's fixed elapsed time
UpdateFixed ==
    /\ source.updates < MaxRunUpdates
    /\ source' = Update(source, elapsed)
    /\ prev' = source
    /\ UNCHANGED <<elapsed, cmp, programVars>>

NextRun == UpdateFixed

\* the render loop keeps updating the graph for as long as callbacks come
SpecRun == InitRun /\ [][NextRun]_vars /\ WF_vars(NextRun)

-----------------------------------------------------------------------------
(* SpecSine: one oscillator with vibrato, updated with any elapsed time *)

\* frequencies in Hz and vibrato depths in cents drawn for the oscillator
BaseHz == {Fx(1, 2), Fx(1, 1), Fx(3, 1)}
VibHz == {Fx(1, 4), Fx(1, 1)}
Cents == {0, 14, 28}

InitSine ==
    /\ source \in {vibrato(sine(F32(hz)), F32(vib), cents) :
                       hz \in BaseHz, vib \in VibHz, cents \in Cents}
    /\ prev = NoNode
    /\ elapsed = NoTime
    /\ CmpIdle
    /\ ProgramIdle

NextSine == \E st \in Elapsed : UpdateNode(st)

SpecSine == InitSine /\ [][NextSine]_vars

\* the modulator oscillator of a Sine built by vibrato
Modulator(node) == node.hz.right.left

\* C9 as stated: the oscillator's phase is in [0,1) in every reachable state,
\* for any value the frequency source can produce.
C9_PhaseInUnitInterval ==
    source.kind = "Sine" => (0 <= source.phase /\ source.phase < One)

\* C9 amended: the phase is 0 at construction and after every update it is
\* fract (x - trunc(x), which keeps the sign of x) of phase + elapsed seconds
\* * the frequency source's value after its own update; so the phase stays
\* strictly between -1 and 1, and an update from a phase in [0,1) with a
\* non-negative frequency value leaves it in [0,1).
C9_PhaseIsSignedFraction ==
    /\ source.kind = "Sine" /\ source.updates = 0 => source.phase = 0
    /\ [][LET x == source.phase
                    + FMul(as_secs(elapsed'), Sample(Update(source.hz, elapsed')))
          IN /\ -One < source'.phase /\ source'.phase < One
             /\ (x - source'.phase) % One = 0
             /\ (x >= 0 => source'.phase >= 0)
             /\ (x <= 0 => source'.phase <= 0)
             /\ -One < Modulator(source').phase /\ Modulator(source').phase < One]_vars

\* an update with a negative frequency value took the phase below 0
C9_Witness ==
    /\ source.kind = "Sine" /\ prev.kind = "Sine"
    /\ prev.phase >= 0
    /\ Sample(source.hz) < 0
    /\ source.phase < 0

\* C14: within one oscillator update the frequency source is updated first
\* and the phase increment uses its value after that update, the value of the
\* current tick; with vibrato the modulator oscillator is therefore advanced,
\* once per tick, before the carrier's phase is computed from it.
C14_FrequencyUpdatedBeforePhase ==
    (source.kind = "Sine" /\ prev.kind = "Sine") =>
        /\ source.hz = Update(prev.hz, elapsed)
        /\ source.phase =
              Fract(prev.phase + FMul(as_secs(elapsed), Sample(source.hz)))
        /\ Modulator(source) = Update(Modulator(prev), elapsed)
        /\ Modulator(source).updates = source.updates

\* the modulator moved the frequency value in this tick, and the carrier's
\* phase is the one computed from the new value, not from the previous one
C14_Witness ==
    /\ source.kind = "Sine" /\ prev.kind = "Sine"
    /\ Sample(source.hz) # Sample(prev.hz)
    /\ source.phase =
          Fract(prev.phase + FMul(as_secs(elapsed), Sample(source.hz)))
    /\ source.phase #
          Fract(prev.phase + FMul(as_secs(elapsed), Sample(prev.hz)))

-----------------------------------------------------------------------------
(* SpecTime: SampleTime comparison on any pair *)

\* counts and rates around the device rates and the 32-bit limit
DeviceRates == {44100, 48000}
LongCounts == {44100, 48000, 48001, 89478, 89479}
Counts == (0..MaxCount) \cup LongCounts
TimeRates == (1..MaxRate) \cup DeviceRates

InitTime ==
    /\ cmp \in {[a |-> SampleTime(ac, ar), b |-> SampleTime(bc, br),
                  checks |-> k, done |-> FALSE, eq |-> FALSE, ord |-> "Equal"] :
                     ac \in Counts, ar \in TimeRates, bc \in Counts,
                     br \in TimeRates, k \in BOOLEAN}
    /\ GraphIdle
    /\ ProgramIdle

\* a == b and a.partial_cmp(&b)
Compare ==
    /\ ~cmp.done
    /\ cmp' = [cmp EXCEPT !.done = TRUE,
                          !.eq = SampleTime_eq(cmp.a, cmp.b, cmp.checks),
                          !.ord = SampleTime_partial_cmp(cmp.a, cmp.b, cmp.checks)]
    /\ UNCHANGED <<source, prev, elapsed, programVars>>

NextTime == Compare

SpecTime == InitTime /\ [][NextTime]_vars

\* the exact comparison of the rationals a/b and c/d (b, d > 0) by their
\* continued fractions, with no product formed
RECURSIVE RatCmp(_, _, _, _)
RatCmp(a, b, c, d) ==
    LET q1 == a \div b
        q2 == c \div d
        r1 == a % b
        r2 == c % d
    IN IF q1 < q2 THEN "Less"
       ELSE IF q1 > q2 THEN "Greater"
       ELSE IF r1 = 0 /\ r2 = 0 THEN "Equal"
       ELSE IF r1 = 0 THEN "Less"
       ELSE IF r2 = 0 THEN "Greater"
       ELSE RatCmp(d, r2, b, r1)

\* x * y <= 2^32 - 1, with no product formed
FitsU32(x, y) ==
    LET m == 2147483647
    IN x <= 1 \/ y <= 2 * (m \div x) + (2 * (m % x) + 1) \div x

ProductsFit(a, b) == FitsU32(a.count, b.rate) /\ FitsU32(b.count, a.rate)

\* C8: for SampleTime a, b with positive rates whose products fit in 32 bits,
\* a == b exactly when count_a/rate_a = count_b/rate_b and a < b exactly when
\* count_a/rate_a < count_b/rate_b as exact rationals, in either build.
C8_ExactRationalComparison ==
    (cmp.done /\ ProductsFit(cmp.a, cmp.b)) =>
        LET exact == RatCmp(cmp.a.count, cmp.a.rate, cmp.b.count, cmp.b.rate)
        IN /\ cmp.eq = (exact = "Equal")
           /\ cmp.ord = exact

\* two distinct SampleTime values at different device rates were compared,
\* their products fit and they are equal
C8_Witness ==
    /\ cmp.done
    /\ ProductsFit(cmp.a, cmp.b)
    /\ cmp.a.rate # cmp.b.rate
    /\ cmp.a.count > MaxCount /\ cmp.b.count > MaxCount
    /\ cmp.eq = TRUE

\* C17: a SampleTime at rate 48000 is usable up to about 24 hours: for every
\* 32-bit count the products count*rate formed by eq and partial_cmp do not
\* overflow, so the outcome is the exact rational comparison of count/rate.
C17_ExactUpTo24HoursAt48k ==
    (cmp.done /\ cmp.a.rate = 48000 /\ cmp.b.rate = 48000) =>
        LET exact == RatCmp(cmp.a.count, cmp.a.rate, cmp.b.count, cmp.b.rate)
        IN /\ cmp.ord = exact
           /\ cmp.eq = (exact = "Equal")

-----------------------------------------------------------------------------
(* Spec: main.  The backend invokes the render callback on its own thread   *)
(* while the controlling thread waits for the descriptors.                 *)

Init ==
    /\ config \in [channels : ChannelCounts, sample_rate : RenderRates]
    /\ source = MainSource
    /\ prev = NoNode
    /\ elapsed = NoTime
    /\ CmpIdle
    /\ stream = "built"
    /\ cb = NoCallback
    /\ chan = <<>>
    /\ rx = "alive"
    /\ ctl = [NoControl EXCEPT !.pc = "play"]
    /\ clock = 0
    /\ log = NoLog

\* stream.play()
Play ==
    /\ ctl.pc = "play"
    /\ stream' = "playing"
    /\ ctl' = [ctl EXCEPT !.pc = "recv_first"]
    /\ UNCHANGED <<source, prev, elapsed, cmp, config, cb, chan, rx, clock, log>>

\* the backend calls the closure with a buffer of `frames` frames and the
\* timestamp of this buffer
CallbackInvoke(frames, step, latency) ==
    /\ stream = "playing"
    /\ cb.pc = "idle"
    /\ log.callbacks < MaxCallbacks
    /\ clock' = clock + step
    /\ cb' = [pc |-> "send",
              buf |-> [i \in 1..(frames * config.channels) |-> <<>>],
              info |-> [callback |-> clock', playback |-> clock' + latency],
              frames |-> frames,
              frame |-> 0,
              base |-> source.updates,
              trace |-> <<>>]
    /\ log' = [log EXCEPT !.callbacks = @ + 1]
    /\ UNCHANGED <<source, prev, elapsed, cmp, config, stream, chan, rx, ctl>>

\* tx.send(info.timestamp()).unwrap(): send fails once the receiver has been
\* dropped, and the unwrap then panics on the callback thread
CallbackSend ==
    /\ cb.pc = "send"
    /\ IF rx = "alive"
       THEN /\ chan' = Channel_send(chan, cb.info)
            /\ cb' = [cb EXCEPT !.pc = "render", !.trace = Append(@, "send")]
            /\ log' = [log EXCEPT !.sent = Append(@, cb.info)]
       ELSE /\ cb' = [cb EXCEPT !.pc = "panicked"]
            /\ UNCHANGED <<chan, log>>
    /\ UNCHANGED <<source, prev, elapsed, cmp, config, stream, rx, ctl, clock>>

\* one iteration of the loop over buf.chunks_mut(channels)
CallbackFrame ==
    /\ cb.pc = "render"
    /\ cb.frame < cb.frames
    /\ \E r \in {RenderFrame(source, cb.buf, cb.frame + 1, config.channels,
                              config.sample_rate)} :
          /\ source' = r.source
          /\ cb' = [cb EXCEPT !.buf = r.buf, !.frame = @ + 1,
                              !.trace = @ \o r.calls]
    /\ elapsed' = SampleTime(1, config.sample_rate)
    /\ UNCHANGED <<prev, cmp, config, stream, chan, rx, ctl, clock, log>>

\* the closure returns
CallbackReturn ==
    /\ cb.pc = "render"
    /\ cb.frame = cb.frames
    /\ cb' = [cb EXCEPT !.pc = "idle"]
    /\ UNCHANGED <<source, prev, elapsed, cmp, config, stream, chan, rx, ctl, clock, log>>

\* let start_time = rx.recv().unwrap().playback
RecvFirst ==
    /\ ctl.pc = "recv_first"
    /\ chan # <<>>
    /\ LET r == Channel_recv(chan)
       IN /\ chan' = r.rest
          /\ ctl' = [ctl EXCEPT !.pc = "iter", !.start_time = r.msg.playback]
          /\ log' = [log EXCEPT !.received = Append(@, r.msg)]
    /\ UNCHANGED <<source, prev, elapsed, cmp, config, stream, cb, rx, clock>>

RecvNext_timeout ==
    /\ ctl.pc = "iter"
    /\ IF chan = <<>>
       THEN /\ ctl' = [ctl EXCEPT !.pc = "drop_stream"]
            /\ UNCHANGED <<chan, log>>
       ELSE LET r == Channel_recv(chan)
                d == StopDecision(ctl.start_time, r.msg)
            IN /\ chan' = r.rest
               /\ log' = [log EXCEPT !.received = Append(@, r.msg)]
               /\ ctl' = IF d.stop
                         THEN [ctl EXCEPT !.pc = "sleep", !.cur = r.msg,
                                          !.delay = d.delay[1]]
                         ELSE [ctl EXCEPT !.cur = r.msg]
    /\ UNCHANGED <<source, prev, elapsed, cmp, config, stream, cb, rx, clock>>

\* one iteration of `for playback_time in rx.iter()`, up to the call of sleep
RecvNext ==
    /\ ctl.pc = "iter"
    /\ chan # <<>>
    /\ LET r == Channel_recv(chan)
           d == StopDecision(ctl.start_time, r.msg)
       IN /\ chan' = r.rest
          /\ log' = [log EXCEPT !.received = Append(@, r.msg)]
          /\ \/ /\ d.stop
                /\ ctl' = [ctl EXCEPT !.pc = "sleep", !.cur = r.msg,
                                      !.delay = d.delay[1]]
             \/ /\ ~d.stop
                /\ ctl' = [ctl EXCEPT !.cur = r.msg]
    /\ UNCHANGED <<source, prev, elapsed, cmp, config, stream, cb, rx, clock>>

\* std::thread::sleep(playback_delay) returns; break
SleepDone ==
    /\ ctl.pc = "sleep"
    /\ ctl' = [ctl EXCEPT !.pc = "drop_stream", !.slept = TRUE]
    /\ UNCHANGED <<source, prev, elapsed, cmp, config, stream, cb, chan, rx, clock, log>>

DropStream_rx_first ==
    /\ ctl.pc = "drop_stream"
    /\ rx' = "dropped"
    /\ ctl' = [ctl EXCEPT !.pc = "drop_rx"]
    /\ UNCHANGED <<source, prev, elapsed, cmp, config, stream, cb, chan, clock, log>>

\* main returns: `stream` is dropped first (declared after rx), which stops
\* the stream once the callback in progress has returned
DropStream ==
    /\ ctl.pc = "drop_stream"
    /\ cb.pc = "idle"
    /\ stream' = "dropped"
    /\ ctl' = [ctl EXCEPT !.pc = "drop_rx"]
    /\ UNCHANGED <<source, prev, elapsed, cmp, config, cb, chan, rx, clock, log>>

\* then `rx` is dropped
DropRx ==
    /\ ctl.pc = "drop_rx"
    /\ rx' = "dropped"
    /\ ctl' = [ctl EXCEPT !.pc = "exit"]
    /\ UNCHANGED <<source, prev, elapsed, cmp, config, stream, cb, chan, clock, log>>

Next ==
    \/ Play
    \/ \E frames \in 1..MaxFrames, step \in ClockSteps, latency \in Latencies :
          CallbackInvoke(frames, step, latency)
    \/ CallbackSend
    \/ CallbackFrame
    \/ CallbackReturn
    \/ RecvFirst
    \/ RecvNext
    \/ SleepDone
    \/ DropStream
    \/ DropRx

Spec == Init /\ [][Next]_vars

\* the ADSR nodes of the graph
Envelopes == {n \in Nodes(source) : n.kind = "ADSR"}

\* C4: every combinator forwards update to all of its children exactly once
\* per update it receives: after n updates of the root of the three-voice
\* graph, every wrapper, sum, product, oscillator, modulator and envelope of
\* the tree has been updated exactly n times.
C4_EveryNodeUpdatedOncePerTick ==
    \A n \in Nodes(source) : n.kind # "f32" => n.updates = source.updates

\* the root has been updated several times while an envelope is still at
\* level 0 in Before, and that envelope has received every update
C4_Witness ==
    /\ source.updates >= 2
    /\ \E n \in Envelopes :
          n.state = "Before" /\ n.level = 0 /\ n.updates = source.updates
    /\ \E n \in Envelopes : n.level > 0

RECURSIVE Repeat(_, _)
Repeat(seq, n) == IF n = 0 THEN <<>> ELSE seq \o Repeat(seq, n - 1)

\* the slots of the f-th frame of the callback's buffer
FrameSlots(f) ==
    {cb.buf[i] : i \in ((f - 1) * config.channels + 1)..(f * config.channels)}

\* C5: in each render callback, for every frame of the buffer in order, the
\* root is updated exactly once with SampleTime{count:1, rate:sample_rate},
\* then sampled exactly once, and that value is written to every channel slot
\* of the frame; when the callback has returned every frame holds one value
\* and the root has been updated once per frame of the buffer.
C5_OneUpdateAndSamplePerFrame ==
    cb.pc \in {"render", "idle"} =>
        /\ source.updates = cb.base + cb.frame
        /\ SubSeq(cb.trace, 2, Len(cb.trace)) = Repeat(<<"update", "sample">>, cb.frame)
        /\ \A f \in 1..cb.frames :
              IF f <= cb.frame
              THEN Cardinality(FrameSlots(f)) = 1 /\ <<>> \notin FrameSlots(f)
              ELSE FrameSlots(f) = {<<>>}
        /\ cb.frame > 0 => FrameSlots(cb.frame) = {<<Sample(source)>>}
        /\ \A n \in Envelopes :
              n.time = source.updates * as_secs(SampleTime(1, config.sample_rate))
        /\ cb.pc = "idle" => cb.frame = cb.frames

\* a callback has returned after filling two frames of two channels with two
\* different non-zero values
C5_Witness ==
    /\ cb.pc = "idle"
    /\ cb.frames = 2
    /\ config.channels = 2
    /\ cb.buf[1] # <<0>> /\ cb.buf[3] # <<0>>
    /\ cb.buf[1] # cb.buf[3]

Exceeds(d) ==
    /\ d.playback >= log.received[1].playback
    /\ d.playback - log.received[1].playback > PlayDuration

\* C6: the controlling thread leaves its wait loop only on consuming a
\* descriptor, not the first, whose playback time minus the playback time of
\* the first descriptor strictly exceeds the play duration; it then sleeps for
\* that descriptor's playback time minus its callback time, and the stream is
\* stopped only after the sleep.
C6_StopAfterTargetAndSleep ==
    /\ ctl.pc \in {"play", "recv_first", "iter"} =>
          /\ stream # "dropped"
          /\ \A i \in 2..Len(log.received) : ~Exceeds(log.received[i])
    /\ ctl.pc \in {"sleep", "drop_stream", "drop_rx", "exit"} =>
          LET n == Len(log.received)
          IN /\ n >= 2
             /\ ctl.start_time = log.received[1].playback
             /\ ctl.cur = log.received[n]
             /\ Exceeds(ctl.cur)
             /\ \A i \in 2..(n - 1) : ~Exceeds(log.received[i])
             /\ ctl.delay = ctl.cur.playback - ctl.cur.callback
    /\ ctl.pc = "sleep" => stream = "playing" /\ ~ctl.slept
    /\ stream = "dropped" => ctl.slept

\* the stream was stopped after a sleep of a positive delay, decided on the
\* third descriptor, the second not exceeding the play duration
C6_Witness ==
    /\ stream = "dropped"
    /\ ctl.delay > 0
    /\ Len(log.received) = 3

\* C7: every callback invocation sends exactly one descriptor, before it
\* renders any frame, and the controlling thread receives the descriptors in
\* the order they were sent, none skipped or duplicated.
C7_OneDescriptorPerCallbackInOrder ==
    /\ Len(log.sent) = log.callbacks - (IF cb.pc = "send" THEN 1 ELSE 0)
    /\ log.sent = log.received \o chan
    /\ cb.pc = "send" =>
          /\ cb.trace = <<>>
          /\ cb.frame = 0
          /\ source.updates = cb.base
    /\ (cb.pc \in {"render", "idle"} /\ log.callbacks > 0) =>
          /\ cb.trace[1] = "send"
          /\ \A i \in 2..Len(cb.trace) : cb.trace[i] # "send"
          /\ log.sent[Len(log.sent)] = cb.info

\* two descriptors have been received while a third waits in the channel
C7_Witness ==
    /\ Len(log.received) = 2
    /\ Len(chan) = 1
    /\ log.callbacks = 3

\* a descriptor whose playback time exceeds the first one sent by more than
\* the play duration has been sent
ExceedingSent ==
    \E i \in 2..Len(log.sent) :
        /\ log.sent[i].playback >= log.sent[1].playback
        /\ log.sent[i].playback - log.sent[1].playback > PlayDuration

\* C16: the controlling thread never stops the stream without a descriptor:
\* as long as the callback has sent no descriptor whose playback time exceeds
\* the target (none at all included), the controlling thread is still in its
\* receive loop, the stream has not been stopped and the receiver is alive;
\* no other path, such as a timeout, leads out of the loop.
C16_NoStopWithoutExceedingDescriptor ==
    ~ExceedingSent =>
        /\ ctl.pc \in {"play", "recv_first", "iter"}
        /\ stream # "dropped"
        /\ rx = "alive"
        /\ ~ctl.slept

\* the backend has stopped calling back after several callbacks, none of
\* which reported a playback time exceeding the target: the channel is empty
\* and the controlling thread is blocked in its loop with the stream playing
C16_Witness ==
    /\ ~ExceedingSent
    /\ log.callbacks = MaxCallbacks
    /\ cb.pc = "idle"
    /\ ctl.pc = "iter"
    /\ chan = <<>>
    /\ stream = "playing"

\* C18: the render callback never sends on the timing channel after the
\* receiver has been dropped: the receiver is alive while the controlling
\* thread sleeps after its stop decision, and at exit it is dropped only after
\* the stream has been stopped with no callback in progress, so the
\* callback's send never fails in any interleaving.
C18_SendNeverFails ==
    /\ cb.pc # "panicked"
    /\ cb.pc = "send" => rx = "alive"
    /\ ctl.pc \in {"sleep", "drop_stream"} => rx = "alive"
    /\ rx = "dropped" => (stream = "dropped" /\ cb.pc = "idle")

\* the program has exited with the receiver dropped, after a callback sent a
\* descriptor that the controlling thread, past its stop decision, never read
C18_Witness ==
    /\ ctl.pc = "exit"
    /\ rx = "dropped"
    /\ chan # <<>>
    /\ Len(log.sent) = Len(log.received) + Len(chan)

-----------------------------------------------------------------------------
(* SpecLive: main with its scheduling.  The controlling thread and a         *)
(* callback in progress keep running; the backend may stop calling back.     *)

ControlStep == Play \/ RecvFirst \/ RecvNext \/ SleepDone \/ DropRx

CallbackStep == CallbackSend \/ CallbackFrame \/ CallbackReturn

\* main on a stereo device
InitLive == Init /\ config.channels = 2 /\ config.sample_rate = 2

SpecLive ==
    /\ InitLive /\ [][Next]_vars
    /\ WF_vars(ControlStep)
    /\ WF_vars(CallbackStep)
    /\ SF_vars(DropStream)

\* C15: once the callback has reported a playback time that exceeds the
\* first by more than the play duration, the controlling thread eventually
\* consumes a descriptor that exceeds it, the stream is eventually stopped
\* and the program terminates.
C15_ExceedingDescriptorStopsStream ==
    ExceedingSent ~>
        /\ ctl.pc = "exit"
        /\ Exceeds(ctl.cur)
        /\ stream = "dropped"
        /\ rx = "dropped"

\* the program has terminated with the stream stopped, on a decision taken
\* on the third descriptor, whose playback time exceeded the target
C15_Witness ==
    /\ ctl.pc = "exit"
    /\ stream = "dropped"
    /\ ExceedingSent
    /\ Len(log.received) = 3
    /\ Exceeds(ctl.cur)

====
